---- MODULE Spec2Model ----
(***************************************************************************)
(* A model of mydb-go's two components:                                    *)
(*   - backend/common/abstract_cache.go : AbstractCache, a reference       *)
(*     counted cache whose loader runs outside the mutex;                  *)
(*   - backend/tm (TransactionManagerImpl) : the XID status file.          *)
(* Spec is the cache under concurrent callers, SpecFair the same under a   *)
(* fair scheduler, SpecTM the transaction manager of a freshly created log *)
(* under concurrent callers.                                               *)
(***************************************************************************)
EXTENDS Integers, Sequences, FiniteSets, TLC

\* ------------------------------------------------------------------ bounds
\* goroutines calling the cache
NumProcs == 2
\* distinct cache keys the callers use
NumKeys == 3
\* API calls (Get, Release, Close) issued in one behaviour of the cache
MaxCalls == 4
\* the largest maxResource a cache is constructed with
MaxCapacity == 2
\* transactions one log file is asked to begin
MaxXid == 3
\* the number of times the file of a log is opened with Open
MaxOpens == 1
\* transactions begun on one log where nothing else is called
LongRun == 256

Procs == 1..NumProcs
Keys == 1..NumKeys

\* ---------------------------------------------------------------- values
\* Go's nil, for a resource
Nil == <<>>
\* no key: the key of a goroutine that has called nothing, or Close()
NoKey == 0
\* an unlocked sync.Mutex
NoHolder == 0
\* the resource the loader builds for key k
Resource(k) == <<"resource", k>>

VARIABLES
    \* AbstractCache fields
    cache, references, getting, maxResource, count, lock,
    \* per goroutine: position in the code, the key argument, Get's (obj, err)
    pc, key, res,
    \* number of API calls issued so far
    calls,
    \* the resources passed to releaseForCache by the latest step, in call order
    relLog

cacheVars == <<cache, references, getting, maxResource, count, lock,
               pc, key, res, calls, relLog>>

VARIABLES
    \* the XID file as ReadAt sees it, and its content on stable storage
    file, disk,
    \* TransactionManagerImpl fields
    xidCounter, counterLock,
    \* per goroutine: position in the code, the xid it works on (Begin's local,
    \* Commit's and Abort's argument), and the call that returned last
    tpc, txid, tlast,
    \* the values Begin has returned, in the order of return
    returned,
    \* the handle on the file: "open", or how it ended ("closed", "panic" for
    \* a panic of the process, "crash" for a loss of power), its fc field,
    \* the number of times the file was opened with Open, and the number of
    \* Begin calls the callers make and see return
    handle, fc, opens, beginLimit

lifeVars == <<handle, fc, opens, beginLimit>>

tmVars == <<file, disk, xidCounter, counterLock, tpc, txid, tlast, returned,
            lifeVars>>

vars == <<cacheVars, tmVars>>

\* ------------------------------------------------------------- Go maps
EmptyMap == [x \in {} |-> Nil]
Has(m, k) == k \in DOMAIN m
\* m[k] with Go's zero value for a missing key
Lookup(m, k, zero) == IF k \in DOMAIN m THEN m[k] ELSE zero
Put(m, k, v) == [x \in (DOMAIN m) \cup {k} |-> IF x = k THEN v ELSE m[x]]
Delete(m, k) == [x \in (DOMAIN m) \ {k} |-> m[x]]

\* ------------------------------------------------------- the Cache loader
NoRes == [obj |-> Nil, err |-> "none"]
\* getForCache(key): the loader either builds the key's resource or fails
getForCache(k) ==
    { [obj |-> Resource(k), err |-> "nil"],
      [obj |-> Nil, err |-> "LoadError"] }

\* ------------------------------------------------------------ the cache
CacheInit ==
    /\ cache = EmptyMap
    /\ references = EmptyMap
    /\ getting = EmptyMap
    /\ maxResource \in 0..MaxCapacity
    /\ count = 0
    /\ lock = NoHolder
    /\ pc = [p \in Procs |-> "idle"]
    /\ key = [p \in Procs |-> NoKey]
    /\ res = [p \in Procs |-> NoRes]
    /\ calls = 0
    /\ relLog = <<>>

\* a caller enters Get(k)
Get_Call(p, k) ==
    /\ pc[p] = "idle"
    /\ calls < MaxCalls
    /\ pc' = [pc EXCEPT ![p] = "get"]
    /\ key' = [key EXCEPT ![p] = k]
    /\ res' = [res EXCEPT ![p] = NoRes]
    /\ calls' = calls + 1
    /\ relLog' = <<>>
    /\ UNCHANGED <<cache, references, getting, maxResource, count, lock>>
    /\ UNCHANGED tmVars

\* Get, one turn of the for loop with getting[key] set: unlock and retry
Get_Spin(p) ==
    /\ pc[p] = "get"
    /\ lock = NoHolder
    /\ Lookup(getting, key[p], FALSE)
    /\ relLog' = <<>>
    /\ UNCHANGED <<cache, references, getting, maxResource, count, lock,
                   pc, key, res, calls>>
    /\ UNCHANGED tmVars

\* Get, the key is in cache: count the reference and return the resource
Get_Hit(p) ==
    /\ pc[p] = "get"
    /\ lock = NoHolder
    /\ ~Lookup(getting, key[p], FALSE)
    /\ Has(cache, key[p])
    /\ references' = Put(references, key[p], Lookup(references, key[p], 0) + 1)
    /\ res' = [res EXCEPT ![p] = [obj |-> cache[key[p]], err |-> "nil"]]
    /\ pc' = [pc EXCEPT ![p] = "idle"]
    /\ relLog' = <<>>
    /\ UNCHANGED <<cache, getting, maxResource, count, lock, key, calls>>
    /\ UNCHANGED tmVars

\* the capacity test with the bound off by one
IsFull_OffByOne == maxResource > 0 /\ count = maxResource + 1

\* the capacity test without the test for a bounded cache
IsFull_Unbounded == count = maxResource

\* the capacity test of Get's miss path
IsFull == maxResource > 0 /\ count = maxResource

\* Get, a miss in a full cache: CacheFullError
Get_Full(p) ==
    /\ pc[p] = "get"
    /\ lock = NoHolder
    /\ ~Lookup(getting, key[p], FALSE)
    /\ ~Has(cache, key[p])
    /\ IsFull
    /\ res' = [res EXCEPT ![p] = [obj |-> Nil, err |-> "CacheFull"]]
    /\ pc' = [pc EXCEPT ![p] = "idle"]
    /\ relLog' = <<>>
    /\ UNCHANGED <<cache, references, getting, maxResource, count, lock,
                   key, calls>>
    /\ UNCHANGED tmVars

\* Get_Reserve without the test of getting[key] at the top of the loop
Get_Reserve_NoGettingTest(p) ==
    /\ pc[p] = "get"
    /\ lock = NoHolder
    /\ ~Has(cache, key[p])
    /\ ~IsFull
    /\ count' = count + 1
    /\ getting' = Put(getting, key[p], TRUE)
    /\ pc' = [pc EXCEPT ![p] = "load"]
    /\ relLog' = <<>>
    /\ UNCHANGED <<cache, references, maxResource, lock, key, res, calls>>
    /\ UNCHANGED tmVars

\* Get_Reserve that keeps the mutex while the loader runs
Get_Reserve_HoldsMutex(p) ==
    /\ pc[p] = "get"
    /\ lock = NoHolder
    /\ ~Lookup(getting, key[p], FALSE)
    /\ ~Has(cache, key[p])
    /\ ~IsFull
    /\ count' = count + 1
    /\ getting' = Put(getting, key[p], TRUE)
    /\ lock' = p
    /\ pc' = [pc EXCEPT ![p] = "load"]
    /\ relLog' = <<>>
    /\ UNCHANGED <<cache, references, maxResource, key, res, calls>>
    /\ UNCHANGED tmVars

\* Get, a miss with room: reserve the slot, mark the key, leave the loop
Get_Reserve(p) ==
    /\ pc[p] = "get"
    /\ lock = NoHolder
    /\ ~Lookup(getting, key[p], FALSE)
    /\ ~Has(cache, key[p])
    /\ ~IsFull
    /\ count' = count + 1
    /\ getting' = Put(getting, key[p], TRUE)
    /\ pc' = [pc EXCEPT ![p] = "load"]
    /\ relLog' = <<>>
    /\ UNCHANGED <<cache, references, maxResource, lock, key, res, calls>>
    /\ UNCHANGED tmVars

\* Get, getForCache(key) returns (obj, err); the mutex is not held
Get_LoaderReturn(p) ==
    /\ pc[p] = "load"
    /\ \E r \in getForCache(key[p]) :
          /\ res' = [res EXCEPT ![p] = r]
          /\ pc' = [pc EXCEPT ![p] = IF r.err = "nil" THEN "install" ELSE "fail"]
    /\ relLog' = <<>>
    /\ UNCHANGED <<cache, references, getting, maxResource, count, lock,
                   key, calls>>
    /\ UNCHANGED tmVars

\* Get_Fail that keeps the reserved slot
Get_Fail_KeepsSlot(p) ==
    /\ pc[p] = "fail"
    /\ lock = NoHolder
    /\ getting' = Delete(getting, key[p])
    /\ pc' = [pc EXCEPT ![p] = "idle"]
    /\ relLog' = <<>>
    /\ UNCHANGED <<cache, references, maxResource, count, lock, key, res, calls>>
    /\ UNCHANGED tmVars

\* Get, the loader failed: give the slot back and return the error
Get_Fail(p) ==
    /\ pc[p] = "fail"
    /\ lock = NoHolder
    /\ count' = count - 1
    /\ getting' = Delete(getting, key[p])
    /\ pc' = [pc EXCEPT ![p] = "idle"]
    /\ relLog' = <<>>
    /\ UNCHANGED <<cache, references, maxResource, lock, key, res, calls>>
    /\ UNCHANGED tmVars

\* Get_Install that leaves the key marked in getting
Get_Install_KeepsMarker(p) ==
    /\ pc[p] = "install"
    /\ lock = NoHolder
    /\ cache' = Put(cache, key[p], res[p].obj)
    /\ references' = Put(references, key[p], 1)
    /\ pc' = [pc EXCEPT ![p] = "idle"]
    /\ relLog' = <<>>
    /\ UNCHANGED <<getting, maxResource, count, lock, key, res, calls>>
    /\ UNCHANGED tmVars

\* Get_Install that counts the installed entry a second time
Get_Install_CountsAgain(p) ==
    /\ pc[p] = "install"
    /\ lock = NoHolder
    /\ getting' = Delete(getting, key[p])
    /\ cache' = Put(cache, key[p], res[p].obj)
    /\ references' = Put(references, key[p], 1)
    /\ count' = count + 1
    /\ pc' = [pc EXCEPT ![p] = "idle"]
    /\ relLog' = <<>>
    /\ UNCHANGED <<maxResource, lock, key, res, calls>>
    /\ UNCHANGED tmVars

\* Get, the loader succeeded: install the resource with one reference
Get_Install(p) ==
    /\ pc[p] = "install"
    /\ lock = NoHolder
    /\ getting' = Delete(getting, key[p])
    /\ cache' = Put(cache, key[p], res[p].obj)
    /\ references' = Put(references, key[p], 1)
    /\ pc' = [pc EXCEPT ![p] = "idle"]
    /\ relLog' = <<>>
    /\ UNCHANGED <<maxResource, count, lock, key, res, calls>>
    /\ UNCHANGED tmVars

\* a caller enters Release(k)
Release_Call(p, k) ==
    /\ pc[p] = "idle"
    /\ calls < MaxCalls
    /\ pc' = [pc EXCEPT ![p] = "release"]
    /\ key' = [key EXCEPT ![p] = k]
    /\ res' = [res EXCEPT ![p] = NoRes]
    /\ calls' = calls + 1
    /\ relLog' = <<>>
    /\ UNCHANGED <<cache, references, getting, maxResource, count, lock>>
    /\ UNCHANGED tmVars

\* Release that forgets to free the slot of the entry it removes
Release_KeepsSlot(p) ==
    /\ pc[p] = "release"
    /\ lock = NoHolder
    /\ IF Has(references, key[p])
       THEN LET ref == references[key[p]] - 1 IN
            IF ref = 0
            THEN /\ relLog' = <<Lookup(cache, key[p], Nil)>>
                 /\ references' = Delete(references, key[p])
                 /\ cache' = Delete(cache, key[p])
                 /\ count' = count
            ELSE /\ references' = Put(references, key[p], ref)
                 /\ relLog' = <<>>
                 /\ UNCHANGED <<cache, count>>
       ELSE /\ relLog' = <<>>
            /\ UNCHANGED <<cache, references, count>>
    /\ pc' = [pc EXCEPT ![p] = "idle"]
    /\ UNCHANGED <<getting, maxResource, lock, key, res, calls>>
    /\ UNCHANGED tmVars

\* Release, the body under the mutex
Release(p) ==
    /\ pc[p] = "release"
    /\ lock = NoHolder
    /\ IF Has(references, key[p])
       THEN LET ref == references[key[p]] - 1 IN
            IF ref = 0
            THEN /\ relLog' = <<Lookup(cache, key[p], Nil)>>
                 /\ references' = Delete(references, key[p])
                 /\ cache' = Delete(cache, key[p])
                 /\ count' = count - 1
            ELSE /\ references' = Put(references, key[p], ref)
                 /\ relLog' = <<>>
                 /\ UNCHANGED <<cache, count>>
       ELSE /\ relLog' = <<>>
            /\ UNCHANGED <<cache, references, count>>
    /\ pc' = [pc EXCEPT ![p] = "idle"]
    /\ UNCHANGED <<getting, maxResource, lock, key, res, calls>>
    /\ UNCHANGED tmVars

\* a caller enters Close()
Close_Call(p) ==
    /\ pc[p] = "idle"
    /\ calls < MaxCalls
    /\ pc' = [pc EXCEPT ![p] = "close"]
    /\ key' = [key EXCEPT ![p] = NoKey]
    /\ res' = [res EXCEPT ![p] = NoRes]
    /\ calls' = calls + 1
    /\ relLog' = <<>>
    /\ UNCHANGED <<cache, references, getting, maxResource, count, lock>>
    /\ UNCHANGED tmVars

\* the orders in which a range over a map with key set S may visit it
Orders(S) ==
    { o \in [1..Cardinality(S) -> S] :
        \A i, j \in 1..Cardinality(S) : o[i] = o[j] => i = j }

RECURSIVE DeleteAll(_, _)
DeleteAll(m, o) ==
    IF o = <<>> THEN m ELSE DeleteAll(Delete(m, Head(o)), Tail(o))

\* Close that spares the entries still referenced
Close_SparesReferenced(p) ==
    /\ pc[p] = "close"
    /\ lock = NoHolder
    /\ \E o \in Orders({k \in DOMAIN cache : Lookup(references, k, 0) <= 1}) :
          /\ relLog' = [i \in 1..Len(o) |-> cache[o[i]]]
          /\ references' = DeleteAll(references, o)
          /\ cache' = DeleteAll(cache, o)
          /\ count' = count - Len(o)
    /\ pc' = [pc EXCEPT ![p] = "idle"]
    /\ UNCHANGED <<getting, maxResource, lock, key, res, calls>>
    /\ UNCHANGED tmVars

\* Close, the body under the mutex: every entry of cache, in map order
Close(p) ==
    /\ pc[p] = "close"
    /\ lock = NoHolder
    /\ \E o \in Orders(DOMAIN cache) :
          /\ relLog' = [i \in 1..Len(o) |-> cache[o[i]]]
          /\ references' = DeleteAll(references, o)
          /\ cache' = DeleteAll(cache, o)
          /\ count' = count - Len(o)
    /\ pc' = [pc EXCEPT ![p] = "idle"]
    /\ UNCHANGED <<getting, maxResource, lock, key, res, calls>>
    /\ UNCHANGED tmVars

CacheNext ==
    \E p \in Procs :
        \/ \E k \in Keys : Get_Call(p, k)
        \/ Get_Spin(p)
        \/ Get_Hit(p)
        \/ Get_Full(p)
        \/ Get_Reserve(p)
        \/ Get_LoaderReturn(p)
        \/ Get_Fail(p)
        \/ Get_Install(p)
        \/ \E k \in Keys : Release_Call(p, k)
        \/ Release(p)
        \/ Close_Call(p)
        \/ Close(p)

\* ============================================================ the XID file
LenXidHeaderLength == 8
XidFieldSize == 1
FieldTranActive == 0
FieldTranCommitted == 1
FieldTranAborted == 2
SuperXid == 0
\* a Go byte holds a value modulo 256
ByteRange == 256

\* byte(x) of an int64 x >= 0
ToByte(x) == x % ByteRange

Max(a, b) == IF a >= b THEN a ELSE b

\* n zero bytes (make([]byte, n))
Zeros(n) == [i \in 1..n |-> 0]

\* os.File.WriteAt(buf, off): the file grows, zero filled, to hold the bytes
WriteAt(f, buf, off) ==
    [i \in 1..Max(Len(f), off + Len(buf)) |->
        IF i > off /\ i <= off + Len(buf) THEN buf[i - off]
        ELSE IF i <= Len(f) THEN f[i]
        ELSE 0]

\* os.File.ReadAt(buf, off) for len(buf) = n: the bytes, or an error (EOF)
ReadAt(f, n, off) ==
    IF off >= 0 /\ off + n <= Len(f)
    THEN [err |-> FALSE, buf |-> [i \in 1..n |-> f[off + i]]]
    ELSE [err |-> TRUE, buf |-> Zeros(n)]

\* getXidPosition that counts xids from 0
getXidPosition_FromZero(xid) == LenXidHeaderLength + xid * XidFieldSize

getXidPosition(xid) == LenXidHeaderLength + (xid - 1) * XidFieldSize

\* checkXID: the answer, whether it panicked, and the ReadAt calls it made
checkXID(xid, status) ==
    LET r == ReadAt(file, XidFieldSize, getXidPosition(xid)) IN
    IF r.err
    THEN [val |-> FALSE, panic |-> TRUE, reads |-> 1]
    ELSE [val |-> r.buf[1] = status, panic |-> FALSE, reads |-> 1]

\* IsActive without the case of the super transaction
IsActive_NoSuperXid(xid) == checkXID(xid, FieldTranActive)

IsActive(xid) ==
    IF xid = SuperXid
    THEN [val |-> FALSE, panic |-> FALSE, reads |-> 0]
    ELSE checkXID(xid, FieldTranActive)

IsCommitted(xid) ==
    IF xid = SuperXid
    THEN [val |-> TRUE, panic |-> FALSE, reads |-> 0]
    ELSE checkXID(xid, FieldTranCommitted)

IsAborted(xid) ==
    IF xid = SuperXid
    THEN [val |-> FALSE, panic |-> FALSE, reads |-> 0]
    ELSE checkXID(xid, FieldTranAborted)

\* the handle Create(path) returns: a file holding the zeroed header, which
\* Create does not Sync, and the zero value of every other field
TMInit ==
    /\ file = Zeros(LenXidHeaderLength)
    /\ disk \in {<<>>, Zeros(LenXidHeaderLength)}
    /\ xidCounter = 0
    /\ counterLock = NoHolder
    /\ tpc = [p \in Procs |-> "idle"]
    /\ txid = [p \in Procs |-> 0]
    /\ tlast = [p \in Procs |-> "none"]
    /\ returned = <<>>
    /\ handle = "open"
    /\ fc = Nil
    /\ opens = 0

\* the handle is open, and the step is not one of Create, Open or Close
SameHandle ==
    /\ handle = "open"
    /\ UNCHANGED lifeVars

\* Begin that does not take counterLock
Begin_Lock_NoMutex(p) ==
    /\ tpc[p] = "idle"
    /\ Len(returned) < beginLimit
    /\ counterLock' = p
    /\ txid' = [txid EXCEPT ![p] = xidCounter + 1]
    /\ tpc' = [tpc EXCEPT ![p] = "begin_write"]
    /\ UNCHANGED <<file, disk, xidCounter, tlast, returned>>
    /\ UNCHANGED cacheVars
    /\ SameHandle

\* Begin: take counterLock, xid := xidCounter + 1
Begin_Lock(p) ==
    /\ tpc[p] = "idle"
    /\ counterLock = NoHolder
    /\ Len(returned) < beginLimit
    /\ counterLock' = p
    /\ txid' = [txid EXCEPT ![p] = xidCounter + 1]
    /\ tpc' = [tpc EXCEPT ![p] = "begin_write"]
    /\ UNCHANGED <<file, disk, xidCounter, tlast, returned>>
    /\ UNCHANGED cacheVars
    /\ SameHandle

\* updateXID, the WriteAt of the status byte
updateXID_Write(p, status, next) ==
    /\ file' = WriteAt(file, <<status>>, getXidPosition(txid[p]))
    /\ tpc' = [tpc EXCEPT ![p] = next]
    /\ UNCHANGED <<disk, xidCounter, counterLock, txid, tlast, returned>>

\* file.Sync(): what was written is on stable storage
Sync == disk' = file

\* Begin: updateXID(xid, FieldTranActive)
Begin_Write(p) ==
    /\ tpc[p] = "begin_write"
    /\ updateXID_Write(p, FieldTranActive, "begin_sync")
    /\ UNCHANGED cacheVars
    /\ SameHandle

\* updateXID that returns without waiting for its Sync
Begin_Sync_NoSync(p) ==
    /\ tpc[p] = "begin_sync"
    /\ tpc' = [tpc EXCEPT ![p] = "incr"]
    /\ UNCHANGED <<file, disk, xidCounter, counterLock, txid, tlast, returned>>
    /\ UNCHANGED cacheVars
    /\ SameHandle

Begin_Sync(p) ==
    /\ tpc[p] = "begin_sync"
    /\ Sync
    /\ tpc' = [tpc EXCEPT ![p] = "incr"]
    /\ UNCHANGED <<file, xidCounter, counterLock, txid, tlast, returned>>
    /\ UNCHANGED cacheVars
    /\ SameHandle

\* incrXIDCounter: xidCounter++ and the WriteAt of its low byte at offset 0
incrXIDCounter(p) ==
    /\ tpc[p] = "incr"
    /\ xidCounter' = xidCounter + 1
    /\ file' = WriteAt(file, <<ToByte(xidCounter + 1)>>, 0)
    /\ tpc' = [tpc EXCEPT ![p] = "incr_sync"]
    /\ UNCHANGED <<disk, counterLock, txid, tlast, returned>>
    /\ UNCHANGED cacheVars
    /\ SameHandle

\* incrXIDCounter's Sync, then Begin returns xid and unlocks (defer)
Begin_Return(p) ==
    /\ tpc[p] = "incr_sync"
    /\ Sync
    /\ counterLock' = NoHolder
    /\ returned' = Append(returned, txid[p])
    /\ tlast' = [tlast EXCEPT ![p] = "begin"]
    /\ tpc' = [tpc EXCEPT ![p] = "idle"]
    /\ UNCHANGED <<file, xidCounter, txid>>
    /\ UNCHANGED cacheVars
    /\ SameHandle

\* Commit that writes Abort's status byte
Commit_Write_AbortedByte(p) ==
    /\ tpc[p] = "idle"
    /\ tlast[p] # "none"
    /\ updateXID_Write(p, FieldTranAborted, "commit_sync")
    /\ UNCHANGED cacheVars
    /\ SameHandle

\* Commit(xid) by the caller that began xid: the WriteAt, then the Sync
Commit_Write(p) ==
    /\ tpc[p] = "idle"
    /\ tlast[p] # "none"
    /\ updateXID_Write(p, FieldTranCommitted, "commit_sync")
    /\ UNCHANGED cacheVars
    /\ SameHandle

Commit_Return(p) ==
    /\ tpc[p] = "commit_sync"
    /\ Sync
    /\ tlast' = [tlast EXCEPT ![p] = "commit"]
    /\ tpc' = [tpc EXCEPT ![p] = "idle"]
    /\ UNCHANGED <<file, xidCounter, counterLock, txid, returned>>
    /\ UNCHANGED cacheVars
    /\ SameHandle

\* Abort that leaves a transaction alone once it is committed
Abort_Write_KeepsCommitted(p) ==
    /\ tpc[p] = "idle"
    /\ tlast[p] # "none"
    /\ IF IsCommitted(txid[p]).val
       THEN /\ tpc' = [tpc EXCEPT ![p] = "abort_sync"]
            /\ UNCHANGED <<file, disk, xidCounter, counterLock, txid, tlast,
                           returned>>
       ELSE updateXID_Write(p, FieldTranAborted, "abort_sync")
    /\ UNCHANGED cacheVars
    /\ SameHandle

\* Abort(xid) by the caller that began xid
Abort_Write(p) ==
    /\ tpc[p] = "idle"
    /\ tlast[p] # "none"
    /\ updateXID_Write(p, FieldTranAborted, "abort_sync")
    /\ UNCHANGED cacheVars
    /\ SameHandle

Abort_Return(p) ==
    /\ tpc[p] = "abort_sync"
    /\ Sync
    /\ tlast' = [tlast EXCEPT ![p] = "abort"]
    /\ tpc' = [tpc EXCEPT ![p] = "idle"]
    /\ UNCHANGED <<file, xidCounter, counterLock, txid, returned>>
    /\ UNCHANGED cacheVars
    /\ SameHandle

TMNext ==
    \E p \in Procs :
        \/ Begin_Lock(p)
        \/ Begin_Write(p)
        \/ Begin_Sync(p)
        \/ incrXIDCounter(p)
        \/ Begin_Return(p)
        \/ Commit_Write(p)
        \/ Commit_Return(p)
        \/ Abort_Write(p)
        \/ Abort_Return(p)

\* ----------------------------------------- the life of the file of a log
\* checkXIDCounter on a file f: whether it panics, and the counter it reads,
\* which is the first byte of the header
checkXIDCounter(f) ==
    IF Len(f) < LenXidHeaderLength
    THEN [panic |-> TRUE, xidCounter |-> 0]
    ELSE LET r == ReadAt(f, LenXidHeaderLength, 0)
             counter == r.buf[1]
             end == getXidPosition(counter + 1)
         IN  [panic |-> r.err \/ end # Len(f), xidCounter |-> counter]

\* the operating system writes one dirty byte of the file back to the disk,
\* at a time of its choosing
Flush ==
    /\ handle # "crash"
    /\ \E i \in 1..Len(file) :
           /\ IF i > Len(disk) THEN TRUE ELSE disk[i] # file[i]
           /\ disk' = WriteAt(disk, <<file[i]>>, i - 1)
    /\ UNCHANGED <<file, xidCounter, counterLock, tpc, txid, tlast, returned>>
    /\ UNCHANGED lifeVars
    /\ UNCHANGED cacheVars

\* the machine loses power: what was not written back is lost, and every
\* caller is gone with what it knew
Crash ==
    /\ handle = "open"
    /\ handle' = "crash"
    /\ file' = disk
    /\ counterLock' = NoHolder
    /\ tpc' = [p \in Procs |-> "idle"]
    /\ txid' = [p \in Procs |-> 0]
    /\ tlast' = [p \in Procs |-> "none"]
    /\ UNCHANGED <<disk, xidCounter, returned, fc, opens, beginLimit>>
    /\ UNCHANGED cacheVars

\* Close() of the handle, called when no other call is in progress: it
\* calls fc.Close() first, which panics on the nil fc
TM_Close(p) ==
    /\ handle = "open"
    /\ \A q \in Procs : tpc[q] = "idle"
    /\ handle' = IF fc = Nil THEN "panic" ELSE "closed"
    /\ UNCHANGED <<file, disk, xidCounter, counterLock, tpc, txid, tlast,
                   returned, fc, opens, beginLimit>>
    /\ UNCHANGED cacheVars

\* Open(path) on the file the last handle left: it opens the file and
\* returns a handle with the zero value of every other field
Open ==
    /\ handle # "open"
    /\ opens < MaxOpens
    /\ opens' = opens + 1
    /\ handle' = "open"
    /\ xidCounter' = 0
    /\ fc' = Nil
    /\ counterLock' = NoHolder
    /\ UNCHANGED <<file, disk, tpc, txid, tlast, returned, beginLimit>>
    /\ UNCHANGED cacheVars

LogNext ==
    \/ TMNext
    \/ Flush
    \/ Crash
    \/ \E p \in Procs : TM_Close(p)
    \/ Open

\* ------------------------------------------------------- specifications
\* a cache with no log in use
TMUnused ==
    /\ file = <<>>
    /\ disk = <<>>
    /\ xidCounter = 0
    /\ counterLock = NoHolder
    /\ tpc = [p \in Procs |-> "idle"]
    /\ txid = [p \in Procs |-> 0]
    /\ tlast = [p \in Procs |-> "none"]
    /\ returned = <<>>
    /\ handle = "closed"
    /\ fc = Nil
    /\ opens = 0
    /\ beginLimit = 0

\* a log with no cache in use
CacheUnused ==
    /\ CacheInit
    /\ maxResource = 0

Init == CacheInit /\ TMUnused

Next == CacheNext

\* the cache under concurrent callers
Spec == Init /\ [][Next]_vars

InitTM == TMInit /\ beginLimit = MaxXid /\ CacheUnused

NextTM == TMNext

\* the transaction manager of a freshly created log under concurrent callers
SpecTM == InitTM /\ [][NextTM]_vars

\* a log from its Create, with Close, Open, write-back and loss of power
InitLog == TMInit /\ beginLimit = MaxXid /\ CacheUnused

NextLog == LogNext

SpecLog == InitLog /\ [][NextLog]_vars

\* a log from its Create on which the callers only begin transactions
InitLong == TMInit /\ beginLimit = LongRun /\ CacheUnused

NextLong ==
    \E p \in Procs :
        \/ Begin_Lock(p)
        \/ Begin_Write(p)
        \/ Begin_Sync(p)
        \/ incrXIDCounter(p)
        \/ Begin_Return(p)

SpecLong == InitLong /\ [][NextLong]_vars

\* =============================================================== claims
\* ---------------------------------------------------------- cache views
\* the keys with a load in flight (marked in getting) and the resident keys
LoadingKeys == {k \in DOMAIN getting : getting[k]}
PresentKeys == DOMAIN cache
Absent(k) == k \notin PresentKeys /\ k \notin LoadingKeys
\* the goroutines inside Get's miss path for k, from reservation to hand-back
Loaders(k) == {p \in Procs : pc[p] \in {"load", "install", "fail"} /\ key[p] = k}
\* the goroutines whose getForCache(k) has not returned
InLoader(k) == {p \in Procs : pc[p] = "load" /\ key[p] = k}

\* C1: getForCache(k) starts only when k is Absent: a step that enters the
\* loader for k starts from a state where k is neither resident nor being
\* loaded; at no time are two loads of one key in flight or is a key being
\* loaded resident; and a Get that finds k resident returns it with the
\* reference count raised by one, without entering the loader.
C1_LoadOnlyWhenAbsent ==
    /\ [][\A p \in Procs :
            /\ (pc[p] # "load" /\ pc'[p] = "load")
                  => (Absent(key'[p]) /\ Loaders(key'[p]) = {})
            /\ (pc[p] = "get" /\ key[p] \in PresentKeys /\ pc'[p] # "get")
                  => /\ pc'[p] = "idle"
                     /\ res'[p] = [obj |-> cache[key[p]], err |-> "nil"]
                     /\ references'[key[p]] = references[key[p]] + 1
         ]_vars
    /\ [][\A p, q \in Procs :
            /\ (pc'[p] \in {"load", "install", "fail"}
                    /\ pc'[q] \in {"load", "install", "fail"}
                    /\ key'[q] = key'[p]) => q = p
            /\ (pc'[p] \in {"load", "install", "fail"}
                    => (key'[p] \notin PresentKeys' /\ key'[p] \in LoadingKeys'))
         ]_vars

\* C1 witness: one caller is inside the loader for a key while another
\* caller's Get of the same key is waiting
C1_Witness ==
    \E p, q \in Procs :
        /\ p # q
        /\ pc[p] = "load"
        /\ pc[q] = "get"
        /\ key[q] = key[p]

\* C2: in a bounded cache the keys Loading or Present never outnumber
\* maxResource.
C2_Bounded ==
    maxResource > 0 => Cardinality(LoadingKeys \cup PresentKeys) <= maxResource

\* C2 witness: a bounded cache filled to the bound by a resident key and a
\* key being loaded, with a further Get pending
C2_Witness ==
    /\ maxResource > 0
    /\ Cardinality(LoadingKeys \cup PresentKeys) = maxResource
    /\ LoadingKeys # {}
    /\ PresentKeys # {}
    /\ \E p \in Procs : pc[p] = "get" /\ Absent(key[p])

\* the condition under which the claim says Get(k) answers CacheFull
FullFor(k) ==
    /\ maxResource > 0
    /\ Absent(k)
    /\ Cardinality(LoadingKeys \cup PresentKeys) = maxResource

\* C3: a Get(k) that is evaluated under the lock returns CacheFull exactly
\* when the cache is bounded, k is Absent and Loading plus Present entries
\* number maxResource; the step that returns CacheFull changes nothing of
\* the cache; no CacheFull is ever returned by an unbounded cache.
C3_CacheFullIff ==
    [][\A p \in Procs :
        /\ (pc[p] = "get" /\ pc'[p] = "idle" /\ res'[p].err = "CacheFull")
              => /\ FullFor(key[p])
                 /\ UNCHANGED <<cache, references, getting, count, maxResource>>
        /\ (pc[p] = "get" /\ pc'[p] # "get" /\ FullFor(key[p]))
              => (pc'[p] = "idle" /\ res'[p] = [obj |-> Nil, err |-> "CacheFull"])
        /\ (res'[p].err = "CacheFull" => maxResource' > 0)
      ]_vars

\* C3 witness: one Get has returned CacheFull and another caller, in the
\* same full cache, has hit a resident key
C3_Witness ==
    \E p, q \in Procs :
        /\ pc[p] = "idle" /\ res[p].err = "CacheFull"
        /\ pc[q] = "idle" /\ res[q].err = "nil"
        /\ key[q] \in PresentKeys /\ references[key[q]] >= 2

\* C4: the step by which Get hands back a failed load returns the loader's
\* error and leaves its key Absent (not in cache, references or getting),
\* gives back exactly the reserved slot, so that count again equals the
\* number of Loading and Present keys, and touches no resident entry.
C4_FailedLoadLeavesNothing ==
    [][\A p \in Procs :
        (pc[p] = "fail" /\ pc'[p] = "idle")
            => /\ res'[p] = [obj |-> Nil, err |-> "LoadError"]
               /\ key[p] \notin DOMAIN cache'
               /\ key[p] \notin DOMAIN references'
               /\ key[p] \notin DOMAIN getting'
               /\ count' = count - 1
               /\ count' = Cardinality(LoadingKeys') + Cardinality(PresentKeys')
               /\ UNCHANGED <<cache, references>>
      ]_vars

\* C4 witness: a Get(k) has returned the loader's error and a later Get(k)
\* of another caller is inside the loader for the same key
C4_Witness ==
    \E p, q \in Procs :
        /\ pc[p] = "idle" /\ res[p].err = "LoadError"
        /\ pc[q] = "load" /\ key[q] = key[p]

\* the resources a sequence of releaseForCache calls was given
Released(log) == {log[i] : i \in 1..Len(log)}

\* C5: a resident key always has a reference count of at least 1. The
\* Release(k) that takes the count of k from 1 to 0 passes k's resource to
\* releaseForCache exactly once and, in the same step, removes the entry and
\* frees its slot, so that a bounded cache is no longer full; a Release that
\* leaves the count above 0 only decrements it and calls no releaseForCache;
\* a Release of a key that is Absent or Loading changes nothing.
C5_ReleaseToZero ==
    [][\A p \in Procs :
        /\ DOMAIN references' = DOMAIN cache'
        /\ \A k \in DOMAIN references' : references'[k] >= 1
        /\ (pc[p] = "release" /\ pc'[p] = "idle")
              => LET k == key[p] IN
                 IF k \in PresentKeys /\ references[k] = 1
                 THEN /\ relLog' = <<cache[k]>>
                      /\ cache' = Delete(cache, k)
                      /\ references' = Delete(references, k)
                      /\ count' = count - 1
                      /\ getting' = getting
                      /\ maxResource > 0 =>
                            Cardinality(LoadingKeys' \cup PresentKeys') < maxResource
                 ELSE IF k \in PresentKeys
                 THEN /\ relLog' = <<>>
                      /\ references' = [references EXCEPT ![k] = @ - 1]
                      /\ UNCHANGED <<cache, getting, count>>
                 ELSE /\ relLog' = <<>>
                      /\ UNCHANGED <<cache, references, getting, count>>
      ]_vars

\* C5 witness: in a bounded cache that was full, a Release has just brought
\* a key's count to 0, released its resource and freed the slot, while the
\* Get of another, absent key is pending
C5_Witness ==
    \E p, q \in Procs :
        /\ p # q
        /\ \A r \in Procs : key[r] # NoKey
        /\ pc[p] = "idle" /\ res[p] = NoRes
        /\ relLog = <<Resource(key[p])>>
        /\ Absent(key[p])
        /\ maxResource > 0 /\ count = maxResource - 1
        /\ pc[q] = "get" /\ key[q] # key[p] /\ Absent(key[q])

\* C6 as claimed: the step of Close releases every resident entry exactly
\* once, whatever its reference count, and leaves cache and references empty
\* and count = 0.
C6_CloseLeavesCountZero ==
    [][\A p \in Procs :
        (pc[p] = "close" /\ pc'[p] = "idle")
            => /\ Len(relLog') = Cardinality(PresentKeys)
               /\ Released(relLog') = {cache[k] : k \in PresentKeys}
               /\ cache' = EmptyMap
               /\ references' = EmptyMap
               /\ count' = 0
      ]_vars

\* C6, amended: the step of Close releases every resident entry exactly once,
\* whatever its reference count, and leaves cache and references empty; count
\* is left at the number of keys whose load is still in flight, which is 0
\* when no Get is between its reservation and its hand-back.
C6_CloseReleasesAll ==
    [][\A p \in Procs :
        (pc[p] = "close" /\ pc'[p] = "idle")
            => /\ Len(relLog') = Cardinality(PresentKeys)
               /\ Released(relLog') = {cache[k] : k \in PresentKeys}
               /\ cache' = EmptyMap
               /\ references' = EmptyMap
               /\ getting' = getting
               /\ count' = Cardinality(LoadingKeys)
               /\ (\A k \in Keys : Loaders(k) = {}) => count' = 0
      ]_vars

\* C6 witness: Close has just released two resident entries, each exactly
\* once, and the cache is empty with count 0
C6_Witness ==
    \E p, q \in Procs :
        /\ pc[p] = "idle" /\ key[p] = NoKey /\ res[p] = NoRes
        /\ pc[q] = "idle" /\ res[q].err = "nil"
        /\ Len(relLog) = 2
        /\ cache = EmptyMap /\ references = EmptyMap /\ count = 0

\* --------------------------------------------------- waiting for a load
\* the cache under concurrent callers and a fair scheduler: a goroutine that
\* has the loader's result takes the mutex and hands it back, and a Get that
\* is again and again able to leave its loop leaves it. No fairness is
\* assumed of callers (a caller may stop calling), of Release and Close, nor
\* of the loader (getForCache may never return).
Fairness ==
    \A p \in Procs :
        /\ SF_vars(Get_Hit(p) \/ Get_Full(p) \/ Get_Reserve(p))
        /\ WF_vars(Get_Install(p) \/ Get_Fail(p))

SpecFair == Init /\ [][Next]_vars /\ Fairness

\* q's Get is waiting for a load of its key
Waiting(q) == pc[q] = "get" /\ key[q] \in LoadingKeys
\* the loader called for k has returned and its result is not yet handed back
LoaderReturned(k) == \E p \in Procs : pc[p] \in {"install", "fail"} /\ key[p] = k

\* what a Get does in the turn of its loop in which it stops waiting
Reevaluates(q) ==
    LET k == key[q] IN
    IF k \in PresentKeys
    THEN /\ pc'[q] = "idle"
         /\ res'[q] = [obj |-> cache[k], err |-> "nil"]
         /\ references'[k] = references[k] + 1
    ELSE IF FullFor(k)
    THEN /\ pc'[q] = "idle"
         /\ res'[q].err = "CacheFull"
    ELSE /\ pc'[q] = "load"
         /\ k \in LoadingKeys'
         /\ count' = count + 1

\* a Get that finds its key Loading neither returns nor enters the loader,
\* and the turn that ends the wait evaluates the cache as it then is
C7_WaitsWhileLoading ==
    [][\A q \in Procs :
        /\ Waiting(q) => (pc'[q] = "get" /\ res'[q] = res[q] /\ key'[q] = key[q])
        /\ (pc[q] = "get" /\ pc'[q] # "get") => Reevaluates(q)
      ]_vars

C8_BeginReturnsSuccessive ==
    returned = [i \in 1..Len(returned) |-> i]

\* C8 witness: Begin has returned twice and a third call, made by a
\* goroutine that holds an earlier xid, has written its status byte
C8_Witness ==
    /\ Len(returned) = 2
    /\ \E p, q \in Procs :
          /\ p # q
          /\ tpc[p] = "begin_sync" /\ tlast[p] # "none"
          /\ tlast[q] # "none"

\* C9: when the last call a goroutine made was Begin, returning xid, then
\* IsActive(xid) holds; when it was Commit(xid), IsCommitted(xid) holds and
\* IsActive(xid) does not; when it was Abort(xid), IsAborted(xid) holds and
\* IsActive(xid) does not. None of these queries fails.
C9_StatusAfterCall ==
    \A p \in Procs :
        tpc[p] = "idle" =>
            /\ tlast[p] = "begin" =>
                  IsActive(txid[p]) = [val |-> TRUE, panic |-> FALSE, reads |-> 1]
            /\ tlast[p] = "commit" =>
                  /\ IsCommitted(txid[p]).val /\ ~IsCommitted(txid[p]).panic
                  /\ ~IsActive(txid[p]).val /\ ~IsActive(txid[p]).panic
            /\ tlast[p] = "abort" =>
                  /\ IsAborted(txid[p]).val /\ ~IsAborted(txid[p]).panic
                  /\ ~IsActive(txid[p]).val /\ ~IsActive(txid[p]).panic

\* C9 witness: one goroutine has committed the transaction it began, another
\* has aborted its own, and a third transaction was begun before those two
C9_Witness ==
    \E p, q \in Procs :
        /\ tpc[p] = "idle" /\ tlast[p] = "commit"
        /\ tpc[q] = "idle" /\ tlast[q] = "abort"
        /\ txid[p] # txid[q]
        /\ txid[p] > 1 /\ txid[q] > 1

\* C10: whatever the file holds, IsCommitted(0) is true, IsActive(0) and
\* IsAborted(0) are false, and none of the three reads the file.
C10_SuperXid ==
    /\ IsCommitted(SuperXid) = [val |-> TRUE, panic |-> FALSE, reads |-> 0]
    /\ IsActive(SuperXid) = [val |-> FALSE, panic |-> FALSE, reads |-> 0]
    /\ IsAborted(SuperXid) = [val |-> FALSE, panic |-> FALSE, reads |-> 0]

\* C10 witness: the log holds a committed and an aborted transaction while a
\* Begin is between its two writes
C10_Witness ==
    /\ \E x \in 1..xidCounter : IsCommitted(x).val
    /\ \E x \in 1..xidCounter : IsAborted(x).val
    /\ \E p \in Procs : tpc[p] = "incr"

\* the answers of IsActive, IsCommitted and IsAborted for xid, and the
\* answers that follow a Begin, a Commit and an Abort
Answers(xid) ==
    <<IsActive(xid).val, IsCommitted(xid).val, IsAborted(xid).val>>

AnswersAfter(call) ==
    CASE call = "begin" -> <<TRUE, FALSE, FALSE>>
      [] call = "commit" -> <<FALSE, TRUE, FALSE>>
      [] call = "abort" -> <<FALSE, FALSE, TRUE>>

\* no query on xid fails
Answered(xid) ==
    /\ ~IsActive(xid).panic
    /\ ~IsCommitted(xid).panic
    /\ ~IsAborted(xid).panic

\* C11: Open returns a handle only for a file that passes the validation of
\* checkXIDCounter: at least the header long, and exactly as long as the
\* header and one status record for each xid up to the counter in the header.
C11_OpenValidates ==
    [][(handle # "open" /\ handle' = "open")
         => ~checkXIDCounter(file).panic]_vars

\* C12: Close never ends in a fatal error, and on a handle returned by Open
\* after a Close the queries answer, for the xid a caller last used, what the
\* last call on it left, as they did before the Close.
C12_DurableRoundTrip ==
    /\ handle # "panic"
    /\ (handle = "open" /\ opens > 0) =>
          \A p \in Procs :
              (tpc[p] = "idle" /\ tlast[p] # "none") =>
                  /\ Answered(txid[p])
                  /\ Answers(txid[p]) = AnswersAfter(tlast[p])

\* C13: over the life of the file, through Close, loss of power and Open, the
\* xids Begin returns increase strictly: none is returned twice.
C13_XidsNeverReused ==
    \A i, j \in 1..Len(returned) :
        i < j => returned[i] < returned[j]

\* the status record of xid is within the bytes of f
HasRecord(f, xid) == Len(f) >= getXidPosition(xid) + XidFieldSize

\* the counter in the header of f, as checkXIDCounter reads it; 0 when f
\* holds no header
HeaderCounter(f) == IF Len(f) >= LenXidHeaderLength THEN f[1] ELSE 0

\* C14: a Begin writes the counter only when the status record of its xid is
\* on stable storage, and at every point where power can be lost the durable
\* file holds the status record of every xid from 1 to its header counter.
C14_StatusDurableBeforeCounter ==
    /\ \A p \in Procs :
           tpc[p] \in {"incr", "incr_sync"} => HasRecord(disk, txid[p])
    /\ \A xid \in 1..HeaderCounter(disk) : HasRecord(disk, xid)

\* C14 witness: the status record of xid 2 is durable while the durable
\* header still holds 1 and a Begin has written 2 to the header of the file
C14_Witness ==
    \E p \in Procs :
        /\ tpc[p] = "incr_sync"
        /\ txid[p] = 2
        /\ HeaderCounter(file) = 2
        /\ HeaderCounter(disk) = 1
        /\ HasRecord(disk, 2)

\* C15: in every state of the file, the states between the two writes of a
\* Begin included, the length of the file is the header length plus one
\* status record for each xid up to the counter held in the header, which is
\* what the length check of checkXIDCounter accepts.
C15_LengthMatchesHeader ==
    /\ Len(file) = LenXidHeaderLength + HeaderCounter(file) * XidFieldSize
    /\ ~checkXIDCounter(file).panic

\* C16: the write of a Commit or an Abort of an allocated xid, made without
\* the counter lock and whatever the other goroutines are doing (a Begin
\* included), changes the one byte of the file that holds the status of that
\* xid, at offset 8 + (xid - 1), and nothing else: not the length, not the
\* header, not the status of another xid, not the in-memory counter or the
\* lock. The step that returns changes no byte, and when it returns the
\* queries on that xid answer what the call wrote.
C16_OnlyItsStatusByte ==
    [][\A p \in Procs :
          LET index == LenXidHeaderLength + (txid[p] - 1) * XidFieldSize + 1
              writes == tpc[p] = "idle"
                        /\ tpc'[p] \in {"commit_sync", "abort_sync"}
              returns == tpc[p] \in {"commit_sync", "abort_sync"}
                         /\ tpc'[p] = "idle"
          IN  /\ writes =>
                   /\ txid[p] \in 1..xidCounter
                   /\ Len(file') = Len(file)
                   /\ \A i \in 1..Len(file) : i # index => file'[i] = file[i]
                   /\ file'[index] = IF tpc'[p] = "commit_sync"
                                     THEN FieldTranCommitted
                                     ELSE FieldTranAborted
                   /\ xidCounter' = xidCounter
                   /\ counterLock' = counterLock
              /\ returns =>
                   /\ file' = file
                   /\ xidCounter' = xidCounter
                   /\ counterLock' = counterLock
                   /\ Answers(txid[p])' = AnswersAfter(tlast'[p])]_vars

\* C16 witness: a Commit has written its status byte and not yet returned
\* while another goroutine holds the counter lock between the two writes of
\* its Begin, and a third transaction is aborted
C16_Witness ==
    \E p, q \in Procs :
        /\ tpc[p] = "commit_sync"
        /\ IsCommitted(txid[p]).val
        /\ tpc[q] = "incr"
        /\ counterLock = q
        /\ \E x \in 1..xidCounter : x # txid[p] /\ IsAborted(x).val

\* C17: while the loader runs for a key k1, the mutex is free, and every
\* step of another goroutine that does not concern k1 can be taken at once:
\* a Get of another key that no one is loading (hit, CacheFull or the
\* reservation of a miss), the return of another loader and its hand-back,
\* a Release, and Close.
C17_LoaderOutsideMutex ==
    \A p \in Procs :
        pc[p] = "load" =>
            /\ lock = NoHolder
            /\ \A q \in Procs \ {p} :
                  /\ (pc[q] = "get" /\ key[q] \notin LoadingKeys)
                        => ENABLED (Get_Hit(q) \/ Get_Full(q) \/ Get_Reserve(q))
                  /\ pc[q] = "load" => ENABLED Get_LoaderReturn(q)
                  /\ pc[q] = "install" => ENABLED Get_Install(q)
                  /\ pc[q] = "fail" => ENABLED Get_Fail(q)
                  /\ pc[q] = "release" => ENABLED Release(q)
                  /\ pc[q] = "close" => ENABLED Close(q)

\* C17 witness: a loader runs for one key while another key is resident
\* and another goroutine is about to run Close
C17_Witness ==
    \E p, q \in Procs :
        /\ pc[p] = "load"
        /\ pc[q] = "close"
        /\ \E k \in PresentKeys : k # key[p]

\* C18: Commit and Abort overwrite the status whatever it was, a committed
\* or aborted transaction included: from the write of a Commit on, until the
\* next call on the xid writes, IsCommitted is true and IsActive and
\* IsAborted are false, and likewise IsAborted alone is true from the write
\* of an Abort on (so Begin, Commit, Abort ends with IsAborted true and
\* IsCommitted false). Commit and Abort can be called on an xid whatever
\* call was the last on it.
C18_LastCallWins ==
    \A p \in Procs :
        /\ tpc[p] = "commit_sync" => Answers(txid[p]) = AnswersAfter("commit")
        /\ tpc[p] = "abort_sync" => Answers(txid[p]) = AnswersAfter("abort")
        /\ (tpc[p] = "idle" /\ tlast[p] \in {"commit", "abort"}) =>
              /\ Answers(txid[p]) = AnswersAfter(tlast[p])
              /\ ENABLED Commit_Write(p)
              /\ ENABLED Abort_Write(p)

\* C18 witness: an Abort has overwritten the status of a transaction whose
\* Commit had returned, while another goroutine is in the Commit of a
\* transaction it had aborted
C18_Witness ==
    \E p, q \in Procs :
        /\ tpc[p] = "abort_sync" /\ tlast[p] = "commit"
        /\ IsAborted(txid[p]).val /\ ~IsCommitted(txid[p]).val
        /\ tpc[q] = "commit_sync" /\ tlast[q] = "abort"
        /\ IsCommitted(txid[q]).val /\ ~IsAborted(txid[q]).val

\* C19: when n Begin calls have returned on a log and none is in progress,
\* the counter read back from the header is n, the in-memory counter is n,
\* and the file passes the check of checkXIDCounter, for every n, those above
\* 255 included.
C19_HeaderHoldsCounter ==
    counterLock = NoHolder =>
        /\ xidCounter = Len(returned)
        /\ checkXIDCounter(file) =
               [panic |-> FALSE, xidCounter |-> Len(returned)]

\* C20: whenever the mutex is free, count is the number of keys of cache
\* plus the number of keys of getting, every key of getting is marked true,
\* cache and references have the same keys, every reference count is at
\* least 1, no key is in both cache and getting, and count is not negative.
C20_CountMatchesMaps ==
    lock = NoHolder =>
        /\ count = Cardinality(DOMAIN cache) + Cardinality(DOMAIN getting)
        /\ \A k \in DOMAIN getting : getting[k]
        /\ DOMAIN cache = DOMAIN references
        /\ \A k \in DOMAIN references : references[k] >= 1
        /\ DOMAIN cache \cap DOMAIN getting = {}
        /\ count >= 0

\* C20 witness: one key is resident with two references while the loader
\* runs for another key, in a cache with room for two
C20_Witness ==
    /\ \E k \in DOMAIN references : references[k] = 2
    /\ \E p \in Procs : pc[p] = "load" /\ key[p] \in DOMAIN getting
    /\ count = 2
    /\ maxResource = 2

====
